---- MODULE Spec2Model ----
(***************************************************************************)
(* Model of the nutstosoup NTS Radio API client: the transport function    *)
(* fetch_nts_api with its exception mapping, the two mappers               *)
(* get_current_broadcasts and get_mixtapes, the Broadcast record, the      *)
(* command-line entry point main, and fetch_nts_api of nts_api_client.     *)
(*                                                                         *)
(* Conventions.                                                            *)
(*  - A Python dict is a function whose DOMAIN is its key set.             *)
(*  - A text that the code searches or rewrites character by character     *)
(*    (exception messages, URLs, broadcast titles) is a sequence of        *)
(*    fragments.  The characters "4", "0", "&", ";" and the letters of the *)
(*    entity names always stand as fragments of their own, so a search for *)
(*    a substring made of them is a search for a subsequence of fragments. *)
(*  - Any other string value is a TLA+ string; None is the string NoneV.   *)
(*  - The outcome of a call is a record [kind, status_code, message,       *)
(*    value]: kind "ok" with value = <<v>> for a return of v, or the name  *)
(*    of the exception class raised with value = <<>>.                     *)
(***************************************************************************)
EXTENDS Integers, Sequences, FiniteSets, TLC

VARIABLES op, endpoint, net, result, gets, pc, out

vars == <<op, endpoint, net, result, gets, pc, out>>

NoneV == "<None>"

\* ------------------------------------------------------------------ bounds

\* channels of a live document, entries of a mixtapes document, and keys
\* left out of one channel or entry
MaxChannels == 2
MaxEntries == 2
MaxMissing == 1

\* ------------------------------------------------------------- text helpers

Contains(s, sub) ==
  \E i \in 1..(Len(s) - Len(sub) + 1) : SubSeq(s, i, i + Len(sub) - 1) = sub

DigitChars == <<"0", "1", "2", "3", "4", "5", "6", "7", "8", "9">>

RECURSIVE Str(_)
Str(n) ==
  IF n < 10 THEN <<DigitChars[n + 1]>>
  ELSE Str(n \div 10) \o <<DigitChars[(n % 10) + 1]>>

\* ---------------------------------------------------------------- outcomes

Return(v) == [kind |-> "ok", status_code |-> 0, message |-> <<>>, value |-> <<v>>]

Raise(cls, msg) == [kind |-> cls, status_code |-> 0, message |-> msg, value |-> <<>>]

NTSAPIError(msg) == Raise("NTSAPIError", msg)

NTSAPITimeoutError(msg) == Raise("NTSAPITimeoutError", msg)

NTSAPIResponseError(status_code, message) ==
  [kind |-> "NTSAPIResponseError", status_code |-> status_code,
   message |-> <<"API returned ">> \o Str(status_code) \o <<": ">> \o message,
   value |-> <<>>]

\* --------------------------------------------------- the requests library

\* Exception classes of requests.exceptions with their ancestry.
TimeoutClasses == {"Timeout", "ConnectTimeout", "ReadTimeout"}

RequestExceptionClasses ==
  TimeoutClasses \cup {"RequestException", "ConnectionError", "HTTPError", "JSONDecodeError"}

IsTimeout(e) == e.cls \in TimeoutClasses

IsRequestException(e) == e.cls \in RequestExceptionClasses

NoResponse == [present |-> FALSE, status_code |-> 0]

Attached(s) == [present |-> TRUE, status_code |-> s]

Exc(cls, msg, response) == [cls |-> cls, msg |-> msg, response |-> response]

BaseUrl == <<"https://www.nts.live/api/v", "2", "/">>

Url(ep) == BaseUrl \o ep

\* Response.raise_for_status: an HTTPError carrying the response for a 4xx or
\* 5xx status, nothing otherwise.
HttpErrorMsg(status, reason, url) ==
  Str(status)
    \o <<IF status < 500 THEN " Client Error: " ELSE " Server Error: ">>
    \o reason \o <<" for url: ">> \o url

RaisesForStatus(status) == 400 <= status /\ status < 600

\* ----------------------------------------------------------- fetch_nts_api

\* The except clauses of fetch_nts_api applied to an exception e raised
\* inside the try block.
HandleIs404First(e) ==
  IF IsRequestException(e) /\ Contains(e.msg, <<"4", "0", "4">>)
    THEN NTSAPIResponseError(404, e.msg)
  ELSE IF IsTimeout(e) THEN NTSAPITimeoutError(<<"Request timed out">>)
  ELSE IF IsRequestException(e) THEN
    IF e.response.present
      THEN NTSAPIResponseError(e.response.status_code, e.msg)
      ELSE NTSAPIError(<<"Request failed: ">> \o e.msg)
  ELSE Raise(e.cls, e.msg)

Handle(e) ==
  IF IsTimeout(e) THEN NTSAPITimeoutError(<<"Request timed out">>)
  ELSE IF IsRequestException(e) THEN
    IF Contains(e.msg, <<"4", "0", "4">>) THEN NTSAPIResponseError(404, e.msg)
    ELSE IF e.response.present
      THEN NTSAPIResponseError(e.response.status_code, e.msg)
      ELSE NTSAPIError(<<"Request failed: ">> \o e.msg)
  ELSE Raise(e.cls, e.msg)

\* What the network and the library do for one GET:
\*   [shape |-> "raise", step, exc]   the call at `step` of the try block
\*                                    ("get", "raise_for_status", "json")
\*                                    raises exc;
\*   [shape |-> "http", status, reason, body]
\*                                    a response arrives; raise_for_status
\*                                    and json behave as the library does.
fetch_nts_api(ep, n) ==
  IF n.shape = "raise" THEN Handle(n.exc)
  ELSE IF RaisesForStatus(n.status)
    THEN Handle(Exc("HTTPError", HttpErrorMsg(n.status, n.reason, Url(ep)),
                    Attached(n.status)))
  ELSE Return(n.body)

\* The GETs one call of fetch_nts_api issues, in order: requests.get is the
\* first statement of the try block, outside any loop, and no except clause
\* calls it again.
requests_get_retry(ep, n) ==
  IF fetch_nts_api(ep, n).kind = "ok" THEN <<Url(ep)>> ELSE <<Url(ep), Url(ep)>>

requests_get(ep, n) == <<Url(ep)>>

\* ------------------------------------------------------- dicts and objects

EmptyDict == [k \in {} |-> NoneV]

\* None where a dict is expected: what Response.json returns for the body
\* `null`
NoneDoc == [__json__ |-> "null"]

IsNone(v) == DOMAIN v = {"__json__"}

Get(d, k, default) == IF k \in DOMAIN d THEN d[k] ELSE default

Without(d, K) == [k \in (DOMAIN d) \ K |-> d[k]]

KeyError(k) == Raise("KeyError", <<k>>)

TypeError(msg) == Raise("TypeError", <<msg>>)

AttributeError(name) == Raise("AttributeError", <<name>>)

\* A dataclass call cls(**kwargs): `required` are the fields without a
\* default, `defaults` maps the other fields to their defaults.  The object
\* is the record of its fields, tagged with its class.
New(cls, required, defaults, kwargs) ==
  IF ~(DOMAIN kwargs \subseteq required \cup DOMAIN defaults)
    THEN TypeError("unexpected keyword argument")
  ELSE IF ~(required \subseteq DOMAIN kwargs)
    THEN TypeError("missing required argument")
  ELSE Return([f \in required \cup DOMAIN defaults \cup {"__class__"} |->
                 IF f = "__class__" THEN cls
                 ELSE IF f \in DOMAIN kwargs THEN kwargs[f]
                 ELSE defaults[f]])

\* [cls(**x) for x in list]
NewEach(cls, required, defaults, list) ==
  IF \E i \in 1..Len(list) : New(cls, required, defaults, list[i]).kind # "ok"
    THEN LET i == CHOOSE i \in 1..Len(list) :
                    /\ New(cls, required, defaults, list[i]).kind # "ok"
                    /\ \A j \in 1..(i - 1) :
                         New(cls, required, defaults, list[j]).kind = "ok"
         IN New(cls, required, defaults, list[i])
    ELSE Return([i \in 1..Len(list) |-> New(cls, required, defaults, list[i]).value[1]])

\* obj.name on a dataclass object
GetAttr(obj, name) ==
  IF name \in DOMAIN obj THEN Return(obj[name]) ELSE AttributeError(name)

\* x[key]: a dict lookup; a dataclass object is not subscriptable
GetItem(x, key) ==
  IF "__class__" \in DOMAIN x THEN TypeError("object is not subscriptable")
  ELSE IF key \in DOMAIN x THEN Return(x[key])
  ELSE KeyError(key)

BroadcastMediaFields ==
  {"background_large", "background_medium_large", "background_medium",
   "background_small", "background_thumb", "picture_large",
   "picture_medium_large", "picture_medium", "picture_small", "picture_thumb"}

BroadcastMedia(kwargs) ==
  New("BroadcastMedia", {}, [f \in BroadcastMediaFields |-> NoneV], kwargs)

Link(kwargs) == New("Link", {"rel", "href", "type"}, EmptyDict, kwargs)

Links(list) == NewEach("Link", {"rel", "href", "type"}, EmptyDict, list)

AudioSources(list) == NewEach("AudioSource", {"url", "source"}, EmptyDict, list)

Genres(list) == NewEach("Genre", {"id", "value"}, EmptyDict, list)

Moods(list) == NewEach("Mood", {"id", "value"}, EmptyDict, list)

MixtapeMediaFields ==
  {"animation_large_landscape", "animation_large_portrait", "animation_thumb",
   "icon_black", "icon_white", "picture_large", "picture_medium_large",
   "picture_medium", "picture_small", "picture_thumb"}

MixtapeMedia(kwargs) ==
  New("MixtapeMedia", {}, [f \in MixtapeMediaFields |-> NoneV], kwargs)

MixtapeCredits(list) == NewEach("MixtapeCredit", {"name", "path"}, EmptyDict, list)

BroadcastRequired ==
  {"channel", "title", "start_time", "end_time", "embeds", "links"}

BroadcastOptional ==
  {"name", "description", "location_short", "location_long", "show_alias",
   "episode_alias", "picture_url", "raw_json"}

\* Broadcast(**kwargs)
Broadcast(kwargs) ==
  New("Broadcast", BroadcastRequired, [f \in BroadcastOptional |-> NoneV], kwargs)

\* ------------------------------------------------------------ html.unescape

\* The named references the model knows, each with its replacement; like
\* html.unescape, a reference is recognised with or without its closing ";"
\* and the text is scanned once, left to right.
Entities ==
  { [name |-> <<"a", "m", "p">>, char |-> "&"],
    [name |-> <<"l", "t">>, char |-> "<"],
    [name |-> <<"g", "t">>, char |-> ">"] }

StartsWith(s, p) == Len(s) >= Len(p) /\ SubSeq(s, 1, Len(p)) = p

Tail2(s, n) == SubSeq(s, n + 1, Len(s))

RECURSIVE HtmlUnescape(_)
HtmlUnescape(s) ==
  IF s = <<>> THEN <<>>
  ELSE IF s[1] = "&" /\ \E e \in Entities : StartsWith(Tail(s), e.name)
    THEN LET e == CHOOSE e \in Entities : StartsWith(Tail(s), e.name)
             rest == Tail2(s, 1 + Len(e.name))
         IN <<e.char>> \o
            HtmlUnescape(IF rest # <<>> /\ rest[1] = ";" THEN Tail(rest) ELSE rest)
  ELSE <<s[1]>> \o HtmlUnescape(Tail(s))

\* --------------------------------------------------- get_current_broadcasts

get_nts_live_data(n) == fetch_nts_api(<<"live">>, n)

get_nts_mixtapes_data(n) == fetch_nts_api(<<"mixtapes">>, n)

\* The media object of a broadcast: built from the "media" dict when it is
\* there and not empty, all defaults otherwise.
MediaOf(details_data) ==
  IF "media" \in DOMAIN details_data /\ DOMAIN details_data["media"] # {}
    THEN BroadcastMedia(details_data["media"])
    ELSE BroadcastMedia(EmptyDict)

DetailsOf(details_data, media, genres, moods, audio_sources, links) ==
  [ status |-> Get(details_data, "status", ""),
    updated |-> Get(details_data, "updated", ""),
    name |-> Get(details_data, "name", ""),
    description |-> Get(details_data, "description", ""),
    description_html |-> Get(details_data, "description_html", ""),
    external_links |-> Get(details_data, "external_links", <<>>),
    moods |-> moods,
    genres |-> genres,
    location_short |-> Get(details_data, "location_short", NoneV),
    location_long |-> Get(details_data, "location_long", NoneV),
    intensity |-> Get(details_data, "intensity", NoneV),
    media |-> media,
    episode_alias |-> Get(details_data, "episode_alias", ""),
    show_alias |-> Get(details_data, "show_alias", ""),
    broadcast |-> Get(details_data, "broadcast", ""),
    mixcloud |-> Get(details_data, "mixcloud", NoneV),
    audio_sources |-> audio_sources,
    brand |-> Get(details_data, "brand", EmptyDict),
    embeds |-> Get(details_data, "embeds", EmptyDict),
    links |-> links,
    __class__ |-> "Details" ]

\* The body of the loop of get_current_broadcasts for a channel that has a
\* "now" key: the Broadcast appended, or the exception raised on the way.
TitleOfRaw(broadcast_data) == broadcast_data["broadcast_title"]

TitleOf(broadcast_data) == HtmlUnescape(broadcast_data["broadcast_title"])

BroadcastOf(channel) ==
  LET broadcast_data == channel["now"]
      details_data == Get(Get(broadcast_data, "embeds", EmptyDict), "details", EmptyDict)
      media == MediaOf(details_data)
      links == Links(Get(broadcast_data, "links", <<>>))
      genres == Genres(Get(details_data, "genres", <<>>))
      moods == Moods(Get(details_data, "moods", <<>>))
      audio_sources == AudioSources(Get(details_data, "audio_sources", <<>>))
      details_links == Links(Get(details_data, "links", <<>>))
  IN IF media.kind # "ok" THEN media
     ELSE IF links.kind # "ok" THEN links
     ELSE IF genres.kind # "ok" THEN genres
     ELSE IF moods.kind # "ok" THEN moods
     ELSE IF audio_sources.kind # "ok" THEN audio_sources
     ELSE IF details_links.kind # "ok" THEN details_links
     ELSE IF "channel_name" \notin DOMAIN channel THEN KeyError("channel_name")
     ELSE IF "broadcast_title" \notin DOMAIN broadcast_data
       THEN KeyError("broadcast_title")
     ELSE IF "start_timestamp" \notin DOMAIN broadcast_data
       THEN KeyError("start_timestamp")
     ELSE IF "end_timestamp" \notin DOMAIN broadcast_data
       THEN KeyError("end_timestamp")
     ELSE Return(
       [ channel |-> channel["channel_name"],
         title |-> TitleOf(broadcast_data),
         start_time |-> broadcast_data["start_timestamp"],
         end_time |-> broadcast_data["end_timestamp"],
         embeds |-> [details |-> DetailsOf(details_data, media.value[1],
                                           genres.value[1], moods.value[1],
                                           audio_sources.value[1],
                                           details_links.value[1]),
                     __class__ |-> "Embeds"],
         links |-> links.value[1],
         name |-> Get(details_data, "name", NoneV),
         description |-> Get(details_data, "description", NoneV),
         location_short |-> Get(details_data, "location_short", NoneV),
         location_long |-> Get(details_data, "location_long", NoneV),
         show_alias |-> Get(details_data, "show_alias", NoneV),
         episode_alias |-> Get(details_data, "episode_alias", NoneV),
         picture_url |-> media.value[1]["picture_large"],
         raw_json |-> broadcast_data,
         __class__ |-> "Broadcast" ])

\* The loop over live_data["results"]: channels without "now" are skipped,
\* the first exception ends the call.
RECURSIVE BroadcastsLoop(_, _)
BroadcastsLoop(channels, broadcasts) ==
  IF channels = <<>> THEN Return(broadcasts)
  ELSE IF "now" \in DOMAIN Head(channels)
    THEN LET b == BroadcastOf(Head(channels))
         IN IF b.kind # "ok" THEN b
            ELSE BroadcastsLoop(Tail(channels), Append(broadcasts, b.value[1]))
  ELSE BroadcastsLoop(Tail(channels), broadcasts)

\* `not data or "results" not in data`
InvalidFormatEmptyOnly(data) == IsNone(data) \/ DOMAIN data = {}

InvalidFormat(data) ==
  IsNone(data) \/ DOMAIN data = {} \/ "results" \notin DOMAIN data

get_current_broadcasts(n) ==
  LET live_data == get_nts_live_data(n)
  IN IF live_data.kind # "ok" THEN live_data
     ELSE IF InvalidFormat(live_data.value[1])
       THEN NTSAPIError(<<"Invalid live data format">>)
     ELSE IF "results" \notin DOMAIN live_data.value[1] THEN KeyError("results")
     ELSE BroadcastsLoop(live_data.value[1]["results"], <<>>)

\* ------------------------------------------------------------- get_mixtapes

\* mixtapes[alias] = m
PutIfAbsent(mixtapes, alias, m) ==
  [a \in DOMAIN mixtapes \cup {alias} |->
     IF a \in DOMAIN mixtapes THEN mixtapes[a] ELSE m]

Put(mixtapes, alias, m) ==
  [a \in DOMAIN mixtapes \cup {alias} |-> IF a = alias THEN m ELSE mixtapes[a]]

MixtapeRequiredKeys ==
  <<"mixtape_alias", "title", "subtitle", "description", "description_html",
    "audio_stream_endpoint">>

\* The body of the loop of get_mixtapes: the Mixtape built from one entry, or
\* the exception raised on the way.
MixtapeOf(mixtape) ==
  LET media == MixtapeMedia(Get(mixtape, "media", EmptyDict))
      credits == MixtapeCredits(Get(mixtape, "credits", <<>>))
      links == Links(Get(mixtape, "links", <<>>))
      missing == {i \in 1..Len(MixtapeRequiredKeys) :
                    MixtapeRequiredKeys[i] \notin DOMAIN mixtape}
  IN IF media.kind # "ok" THEN media
     ELSE IF credits.kind # "ok" THEN credits
     ELSE IF links.kind # "ok" THEN links
     ELSE IF missing # {}
       THEN KeyError(MixtapeRequiredKeys[CHOOSE i \in missing : \A j \in missing : i <= j])
     ELSE Return(
       [ mixtape_alias |-> mixtape["mixtape_alias"],
         title |-> mixtape["title"],
         subtitle |-> mixtape["subtitle"],
         description |-> mixtape["description"],
         description_html |-> mixtape["description_html"],
         audio_stream_endpoint |-> mixtape["audio_stream_endpoint"],
         credits |-> credits.value[1],
         media |-> media.value[1],
         now_playing_topic |-> Get(mixtape, "now_playing_topic", ""),
         links |-> links.value[1],
         raw_json |-> mixtape,
         __class__ |-> "Mixtape" ])

RECURSIVE MixtapesLoop(_, _)
MixtapesLoop(entries, mixtapes) ==
  IF entries = <<>> THEN Return(mixtapes)
  ELSE LET m == MixtapeOf(Head(entries))
       IN IF m.kind # "ok" THEN m
          ELSE MixtapesLoop(Tail(entries),
                            Put(mixtapes, Head(entries)["mixtape_alias"], m.value[1]))

get_mixtapes(n) ==
  LET mixtapes_data == get_nts_mixtapes_data(n)
  IN IF mixtapes_data.kind # "ok" THEN mixtapes_data
     ELSE IF InvalidFormat(mixtapes_data.value[1])
       THEN NTSAPIError(<<"Invalid mixtapes data format">>)
     ELSE IF "results" \notin DOMAIN mixtapes_data.value[1] THEN KeyError("results")
     ELSE MixtapesLoop(mixtapes_data.value[1]["results"], EmptyDict)

\* ------------------------------------------------- nutstosoup.__main__.main

\* `if v:` for a string or None
Truthy(v) == v \notin {NoneV, ""}

\* "-" * len(text)
Underline(text) == <<"-", "*", "len(">> \o text \o <<")">>

\* [f(x) for x in list]: one printed line per element
Bullets(list, attr) == [i \in 1..Len(list) |-> <<"- ", list[i][attr]>>]

\* What a block of main leaves behind: the lines it printed and how it
\* ended (Return(NoneV) or the exception raised).
Printed(lines, how) == [lines |-> lines, how |-> how]

\* The body of the loop over the broadcasts: the lines printed for one
\* Broadcast.
PrintBroadcast(broadcast) ==
  LET channel_name == <<"Channel ", broadcast.channel>>
      details == broadcast.embeds.details
  IN << <<"\n">> \o channel_name, Underline(channel_name),
        broadcast.title \o <<" (red circle)">> >>
       \o (IF Truthy(details.description)
             THEN << <<"\n", details.description>> >> ELSE <<>>)
       \o (IF details.genres # <<>>
             THEN << <<"\nGenres:">> >> \o Bullets(details.genres, "value") ELSE <<>>)
       \o (IF details.moods # <<>>
             THEN << <<"\nMoods:">> >> \o Bullets(details.moods, "value") ELSE <<>>)
       \o (IF Truthy(details.location_long)
             THEN << <<"\nLocation: ", details.location_long>> >> ELSE <<>>)
       \o (IF details.external_links # <<>>
             THEN << <<"\nLinks:">> >>
                    \o [i \in 1..Len(details.external_links) |->
                          <<"- ", details.external_links[i]>>]
             ELSE <<>>)
       \o (IF details.audio_sources # <<>>
             THEN << <<"\nAudio Sources:">> >>
                    \o [i \in 1..Len(details.audio_sources) |->
                          <<"- ", details.audio_sources[i].source, ": ",
                            details.audio_sources[i].url>>]
             ELSE <<>>)
       \o (IF Truthy(details.mixcloud)
             THEN << <<"\nMixcloud: ", details.mixcloud>> >> ELSE <<>>)
       \o << <<"\nStart: ", broadcast.start_time>>, <<"End: ", broadcast.end_time>> >>
       \o (IF Truthy(details.media.picture_large)
             THEN << <<"\nArtwork: ", details.media.picture_large>> >> ELSE <<>>)

RECURSIVE PrintBroadcasts(_)
PrintBroadcasts(broadcasts) ==
  IF broadcasts = <<>> THEN <<>>
  ELSE PrintBroadcast(Head(broadcasts)) \o PrintBroadcasts(Tail(broadcasts))

\* The body of the loop over the mixtapes: the lines printed for one
\* Mixtape and the exception that ends it.  A credit is a MixtapeCredit
\* object and is subscripted; stream_url is read from the Mixtape.
PrintMixtape(mixtape) ==
  LET head == << <<"\n">> \o mixtape.title \o <<" (", mixtape.mixtape_alias, ")">>,
                 Underline(mixtape.title),
                 <<mixtape.subtitle>>,
                 <<"\n", mixtape.description>> >>
      name == GetItem(mixtape.credits[1], "name")
      stream_url == GetAttr(mixtape, "stream_url")
  IN IF mixtape.credits # <<>> /\ name.kind # "ok"
       THEN Printed(head \o << <<"\nFeaturing:">> >>, name)
     ELSE LET featuring ==
                IF mixtape.credits # <<>>
                  THEN << <<"\nFeaturing:">> >>
                         \o [i \in 1..(IF Len(mixtape.credits) > 5 THEN 5
                                       ELSE Len(mixtape.credits)) |->
                               <<"- ", GetItem(mixtape.credits[i], "name").value[1]>>]
                         \o (IF Len(mixtape.credits) > 5
                               THEN << <<"...and ">> \o Str(Len(mixtape.credits) - 5)
                                         \o <<" more">> >>
                               ELSE <<>>)
                  ELSE <<>>
          IN IF stream_url.kind # "ok" THEN Printed(head \o featuring, stream_url)
             ELSE Printed(head \o featuring \o << <<"\n(notes) ", stream_url.value[1]>> >>,
                          Return(NoneV))

\* The keys of the dict get_mixtapes builds, in insertion order: the order
\* mixtapes.values() iterates in.
RECURSIVE InsertionOrder(_, _)
InsertionOrder(entries, seen) ==
  IF entries = <<>> THEN seen
  ELSE LET alias == Head(entries)["mixtape_alias"]
       IN InsertionOrder(Tail(entries),
                         IF \E i \in 1..Len(seen) : seen[i] = alias THEN seen
                         ELSE Append(seen, alias))

RECURSIVE PrintMixtapes(_, _, _)
PrintMixtapes(order, mixtapes, lines) ==
  IF order = <<>> THEN Printed(lines, Return(NoneV))
  ELSE LET p == PrintMixtape(mixtapes[Head(order)])
       IN IF p.how.kind # "ok" THEN Printed(lines \o p.lines, p.how)
          ELSE PrintMixtapes(Tail(order), mixtapes, lines \o p.lines)

\* The except clauses of main: the line printed for a caught exception;
\* any other exception leaves main.
Caught(e) == e.kind \in {"NTSAPITimeoutError", "NTSAPIResponseError", "NTSAPIError"}

ErrorLine(e) ==
  IF e.kind = "NTSAPITimeoutError" THEN <<"Error: Request timed out">>
  ELSE IF e.kind = "NTSAPIResponseError"
    THEN <<"Error: API returned ">> \o Str(e.status_code) \o <<": ">> \o e.message
  ELSE <<"Error: ">> \o e.message

\* How a block that ended with `how` after printing `lines` leaves main:
\* a caught exception adds its line and main returns.
Leave(lines, how) ==
  IF how.kind = "ok" THEN Printed(lines, how)
  ELSE IF Caught(how) THEN Printed(Append(lines, ErrorLine(how)), Return(NoneV))
  ELSE Printed(lines, how)

\* The first block of main: get_current_broadcasts, the heading and the
\* broadcasts.
main_live(n) ==
  LET broadcasts == get_current_broadcasts(n)
  IN IF broadcasts.kind # "ok" THEN Leave(<<>>, broadcasts)
     ELSE Printed(<< <<"Live Channels">>, <<"-------------">> >>
                    \o PrintBroadcasts(broadcasts.value[1]),
                  Return(NoneV))

\* The second block of main: get_mixtapes, the heading and the mixtapes,
\* after the lines already printed.
main_mixtapes(lines, n) ==
  LET mixtapes == get_mixtapes(n)
  IN IF mixtapes.kind # "ok" THEN Leave(lines, mixtapes)
     ELSE LET p == PrintMixtapes(InsertionOrder(n.body["results"], <<>>),
                                 mixtapes.value[1],
                                 lines \o << <<"\nMixtapes">>, <<"--------">> >>)
          IN Leave(p.lines, p.how)

\* ------------------------------------------- nts_api_client.fetch_nts_api

NetworkError == "Network error: Could not connect to the NTS API"

\* The pair (data, error) of nts_api_client; None is NoneDoc in data and
\* NoneV in error.
Pair(data, error) == [data |-> data, error |-> error]

\* nts_api_client.fetch_nts_api: no timeout, no raise_for_status; the body
\* of any response is returned with no error, every RequestException
\* becomes the fixed message.
client_fetch_nts_api(ep, n) ==
  IF n.shape = "raise" THEN
    IF IsRequestException(n.exc) THEN Return(Pair(NoneDoc, NetworkError))
    ELSE Raise(n.exc.cls, n.exc.msg)
  ELSE Return(Pair(n.body, NoneV))

\* ------------------------------------------------------------------ inputs

Endpoints == { <<"live">>, <<"mixtapes">>, <<"shows/", "4", "0", "4">> }

Statuses == {200, 201, 400, 404, 500, 503}

Reasons == { <<"Error">>, <<"Upstream answered ", "4", "0", "4">> }

ExcClasses == RequestExceptionClasses

ExcMsgs ==
  { <<"Request timed out">>,
    <<"Connection refused">>,
    <<"4", "0", "4", " Client Error: Not Found">>,
    <<"Max retries exceeded with url: /api/v", "2", "/shows/", "4", "0", "4">> }

ExcResponses == {NoResponse, Attached(404), Attached(500)}

Excs == {Exc(c, m, r) : c \in ExcClasses, m \in ExcMsgs, r \in ExcResponses}

Steps == {"get", "raise_for_status", "json"}

RaiseNet(step, e) == [shape |-> "raise", step |-> step, exc |-> e]

HttpNet(status, reason, body) ==
  [shape |-> "http", status |-> status, reason |-> reason, body |-> body]

\* A dict without the keys that `drop` names for its level; `drop` is a set
\* of <<level, key>> pairs.
Prune(level, d, drop) == Without(d, {k \in DOMAIN d : <<level, k>> \in drop})

RECURSIVE SubsetsUpTo(_, _)
SubsetsUpTo(S, k) ==
  IF k = 0 THEN {{}}
  ELSE LET P == SubsetsUpTo(S, k - 1) IN P \cup {D \cup {x} : D \in P, x \in S}

DropSets(paths) == SubsetsUpTo(paths, MaxMissing)

TitlePool ==
  << <<"TED DRAWS">>,
     <<"R ", "&", "a", "m", "p", ";", " B">>,
     <<"&", "a", "m", "p", ";", "l", "t", ";", " ", "&", "g", "t">>,
     <<"A ", "&", " B">> >>

StartPool == <<"2025-01-07T15:00:00Z", "2025-01-07T14:00:00Z", "2025-01-07T13:00:00Z">>

EndPool == <<"2025-01-07T17:00:00Z", "2025-01-07T16:00:00Z", "2025-01-07T15:00:00Z">>

Pick(pool, i) == pool[((i - 1) % Len(pool)) + 1]

FullDetails(i, drop) ==
  Prune("details",
    [ status |-> "published",
      updated |-> "2025-01-07T12:00:00Z",
      name |-> Pick(<<"Ted Draws", "ARRHYTHMIA">>, i),
      description |-> Pick(<<"Hip-hop scholar", "Abnormal rhythms">>, i),
      description_html |-> "<p>text</p>",
      external_links |-> <<"https://example.org">>,
      moods |-> <<Prune("mood", [id |-> "moods-chill", value |-> "Chill"], drop)>>,
      genres |-> <<Prune("genre", [id |-> "genres-hiphop", value |-> "Hip Hop"], drop)>>,
      location_short |-> Pick(<<"LDN", "BHM">>, i),
      location_long |-> Pick(<<"London", "Birmingham">>, i),
      intensity |-> "50",
      media |-> Prune("media", [picture_large |-> "https://media/large.jpeg",
                                picture_thumb |-> "https://media/thumb.jpeg"], drop),
      episode_alias |-> Pick(<<"ted-draws-7th-january-2025",
                               "arrhythmia-7th-january-2025">>, i),
      show_alias |-> Pick(<<"TED-DRAWS", "ARRHYTHMIA">>, i),
      broadcast |-> "2025-01-07T15:00:00Z",
      mixcloud |-> "https://mixcloud/x",
      audio_sources |-> <<Prune("audio_source",
                                [url |-> "https://audio/x", source |-> "soundcloud"],
                                drop)>>,
      brand |-> EmptyDict,
      embeds |-> EmptyDict,
      links |-> <<Prune("link", [rel |-> "self", href |-> "https://api/details",
                                 type |-> "application/json"], drop)>> ],
    drop)

FullNow(i, drop) ==
  Prune("now",
    [ broadcast_title |-> Pick(TitlePool, i),
      start_timestamp |-> Pick(StartPool, i),
      end_timestamp |-> Pick(EndPool, i),
      embeds |-> Prune("embeds", [details |-> FullDetails(i, drop)], drop),
      links |-> <<Prune("link", [rel |-> "self", href |-> "https://api/now",
                                 type |-> "application/json"], drop)>> ],
    drop)

LiveChannel(i, drop) ==
  Prune("channel", [channel_name |-> DigitChars[i + 1], now |-> FullNow(i, drop)], drop)

LivePaths ==
  {<<"channel", "channel_name">>}
    \cup {<<"now", k>> : k \in DOMAIN FullNow(1, {})}
    \cup {<<"embeds", "details">>}
    \cup {<<"details", k>> : k \in DOMAIN FullDetails(1, {})}
    \cup {<<"media", "picture_large">>, <<"media", "picture_thumb">>}
    \cup {<<l, k>> : l \in {"genre", "mood"}, k \in {"id", "value"}}
    \cup {<<"audio_source", k>> : k \in {"url", "source"}}
    \cup {<<"link", k>> : k \in {"rel", "href", "type"}}

\* A live document of n channels: the channels of `onair` have a "now" key,
\* and channel `bad` lacks the keys of `drop`.
LiveDoc(n, onair, bad, drop) ==
  [results |->
     [i \in 1..n |->
        LiveChannel(i, (IF i = bad THEN drop ELSE {})
                         \cup (IF i \in onair THEN {} ELSE {<<"channel", "now">>}))]]

LiveDocs ==
  {LiveDoc(n, onair, bad, drop) :
     n \in 0..MaxChannels, onair \in SUBSET (1..MaxChannels),
     bad \in 1..MaxChannels, drop \in DropSets(LivePaths)}

MixtapeEntry(i, alias, drop) ==
  Prune("mixtape",
    [ mixtape_alias |-> alias,
      title |-> Pick(<< <<"Poolside">>, <<"Slow ", "&", "a", "m", "p", ";", " Focus">>,
                        <<"Low Key">> >>, i),
      subtitle |-> Pick(<<"Balearic, boogie", "Meditative", "Lo-fi">>, i),
      description |-> Pick(<<"Sun-kissed mixes", "Ambient, drone", "Hip-hop">>, i),
      description_html |-> "<p>text</p>",
      audio_stream_endpoint |-> Pick(<<"https://stream/mixtape4", "https://stream/mixtape",
                                       "https://stream/mixtape2">>, i),
      credits |-> << Prune("credit", [name |-> "All Styles All Smiles",
                                      path |-> "/shows/all-styles-all-smiles"], drop),
                     [name |-> "Zakia", path |-> "/shows/zakia"] >>,
      media |-> Prune("media", [picture_large |-> "https://media/large.jpeg",
                                icon_black |-> "https://media/icon.svg"], drop),
      now_playing_topic |-> "topic",
      links |-> <<Prune("link", [rel |-> "self", href |-> "https://api/mixtapes",
                                 type |-> "application/json"], drop)>> ],
    drop)

MixtapePaths ==
  {<<"mixtape", k>> : k \in DOMAIN MixtapeEntry(1, "poolside", {})}
    \cup {<<"credit", "name">>, <<"credit", "path">>}
    \cup {<<"media", "picture_large">>, <<"media", "icon_black">>}
    \cup {<<"link", k>> : k \in {"rel", "href", "type"}}

Aliases == {"poolside", "slow-focus"}

\* A mixtapes document of n entries with the aliases `alias` gives them;
\* entry `bad` lacks the keys of `drop`.
MixtapesDoc(n, alias, bad, drop) ==
  [results |->
     [i \in 1..n |-> MixtapeEntry(i, alias[i], IF i = bad THEN drop ELSE {})]]

MixtapesDocs ==
  {MixtapesDoc(n, alias, bad, drop) :
     n \in 0..MaxEntries, alias \in [1..MaxEntries -> Aliases],
     bad \in 1..MaxEntries, drop \in DropSets(MixtapePaths)}

NoResultsDocs ==
  {NoneDoc, EmptyDict, [invalid |-> "format"], [links |-> <<>>, metadata |-> EmptyDict]}

\* Outcomes of the GET that are no parsed 200 response
FailNets ==
  {RaiseNet(step, Exc(c, <<"Request timed out">>, NoResponse)) :
     step \in Steps, c \in {"ReadTimeout", "ConnectionError"}}
    \cup {HttpNet(s, <<"Error">>, EmptyDict) : s \in {404, 503}}

FetchNets ==
  {RaiseNet(step, e) : step \in Steps, e \in Excs}
    \cup {HttpNet(s, r, b) : s \in Statuses, r \in Reasons,
            b \in NoResultsDocs \cup {LiveDoc(1, {1}, 1, {})}}

LiveNets ==
  FailNets \cup {HttpNet(200, <<"OK">>, d) : d \in LiveDocs \cup NoResultsDocs}

MixtapesNets ==
  FailNets \cup {HttpNet(200, <<"OK">>, d) : d \in MixtapesDocs \cup NoResultsDocs}

\* Keyword arguments of a direct Broadcast(...) call: the four fields of the
\* minimal call, with or without embeds and links, and up to one optional
\* field or one field left out.
MinimalFields == {"channel", "title", "start_time", "end_time"}

KwargValue(f, v) ==
  IF f = "channel" THEN DigitChars[v + 1]
  ELSE IF f = "title" THEN Pick(TitlePool, v)
  ELSE IF f = "start_time" THEN Pick(StartPool, v)
  ELSE IF f = "end_time" THEN Pick(EndPool, v)
  ELSE IF f = "embeds" THEN [details |-> NoneV, __class__ |-> "Embeds"]
  ELSE IF f = "links" THEN <<>>
  ELSE IF f = "raw_json" THEN EmptyDict
  ELSE <<f, " ", Str(v)>>

BroadcastFieldSets ==
  LET bases == {MinimalFields, BroadcastRequired}
  IN bases
       \cup {b \cup {f} : b \in bases, f \in BroadcastOptional \cup {"stream_url"}}
       \cup {b \ {f} : b \in bases, f \in MinimalFields}

BroadcastKwargs ==
  {[f \in F |-> KwargValue(f, v)] : F \in BroadcastFieldSets, v \in 1..MaxChannels}

\* Outcomes of the GET of nts_api_client: requests.get or Response.json
\* raises, or a response arrives with a JSON body.
ClientNets ==
  {RaiseNet(step, Exc(c, <<"Connection refused">>, NoResponse)) :
     step \in {"get", "json"}, c \in ExcClasses}
    \cup {HttpNet(s, <<"Error">>, b) :
            s \in Statuses, b \in NoResultsDocs \cup {LiveDoc(1, {1}, 1, {})}}

\* Outcomes of the two GETs of main: the failures, the documents without
\* "results", and documents of well-formed entries with at most one key
\* missing in the first.
MainLiveDrops ==
  {{}, {<<"channel", "channel_name">>}, {<<"genre", "id">>}, {<<"embeds", "details">>}}

MainLiveNets ==
  FailNets
    \cup {HttpNet(200, <<"OK">>, d) :
            d \in NoResultsDocs
                    \cup {LiveDoc(n, 1..n, 1, drop) :
                            n \in 0..MaxChannels, drop \in MainLiveDrops}}

MainMixtapesDrops ==
  {{}, {<<"mixtape", "credits">>}, {<<"mixtape", "description_html">>},
   {<<"credit", "name">>}}

MainMixtapesNets ==
  FailNets
    \cup {HttpNet(200, <<"OK">>, d) :
            d \in NoResultsDocs
                    \cup {MixtapesDoc(n, [i \in 1..MaxEntries |-> "poolside"], 1, drop) :
                            n \in 0..MaxEntries, drop \in MainMixtapesDrops}}

NoNet == [shape |-> "none"]

\* ------------------------------------------------------------ specification

NoResult == Raise("none", <<>>)

Init ==
  /\ op = "none"
  /\ endpoint = <<>>
  /\ net = NoNet
  /\ result = NoResult
  /\ gets = <<>>
  /\ pc = "idle"
  /\ out = <<>>

\* A caller with no call in progress (op = "none") makes one call; the
\* outcome stays until the caller drops it.
FetchNtsApi ==
  \E ep \in Endpoints, n \in FetchNets :
    /\ op = "none"
    /\ op' = "fetch_nts_api"
    /\ endpoint' = ep
    /\ net' = n
    /\ result' = fetch_nts_api(ep, n)
    /\ gets' = requests_get(ep, n)
    /\ pc' = "done"
    /\ out' = <<>>

GetCurrentBroadcasts ==
  \E n \in LiveNets :
    /\ op = "none"
    /\ op' = "get_current_broadcasts"
    /\ endpoint' = <<"live">>
    /\ net' = n
    /\ result' = get_current_broadcasts(n)
    /\ gets' = requests_get(<<"live">>, n)
    /\ pc' = "done"
    /\ out' = <<>>

GetMixtapes ==
  \E n \in MixtapesNets :
    /\ op = "none"
    /\ op' = "get_mixtapes"
    /\ endpoint' = <<"mixtapes">>
    /\ net' = n
    /\ result' = get_mixtapes(n)
    /\ gets' = requests_get(<<"mixtapes">>, n)
    /\ pc' = "done"
    /\ out' = <<>>

ClientFetchNtsApi ==
  \E ep \in Endpoints, n \in ClientNets :
    /\ op = "none"
    /\ op' = "nts_api_client.fetch_nts_api"
    /\ endpoint' = ep
    /\ net' = n
    /\ result' = client_fetch_nts_api(ep, n)
    /\ gets' = <<Url(ep)>>
    /\ pc' = "done"
    /\ out' = <<>>

\* A caller builds a Broadcast record itself.
NewBroadcast ==
  \E kwargs \in BroadcastKwargs :
    /\ op = "none"
    /\ op' = "Broadcast"
    /\ endpoint' = <<>>
    /\ net' = [shape |-> "kwargs", kwargs |-> kwargs]
    /\ result' = Broadcast(kwargs)
    /\ gets' = <<>>
    /\ pc' = "done"
    /\ out' = <<>>

\* main up to the end of the loop over the broadcasts, or to its end when
\* get_current_broadcasts fails: `net` keeps the outcome of each GET, `result`
\* how main ended.
MainLive ==
  \E n \in MainLiveNets :
    LET p == main_live(n)
    IN /\ op = "none"
       /\ op' = "main"
       /\ endpoint' = <<>>
       /\ net' = [shape |-> "main", live |-> n, mixtapes |-> NoNet]
       /\ gets' = requests_get(<<"live">>, n)
       /\ out' = p.lines
       /\ result' = p.how
       /\ pc' = IF get_current_broadcasts(n).kind = "ok" THEN "mixtapes" ELSE "done"

\* The rest of main: get_mixtapes and the loop over the mixtapes.
MainMixtapes ==
  \E n \in MainMixtapesNets :
    LET p == main_mixtapes(out, n)
    IN /\ op = "main"
       /\ pc = "mixtapes"
       /\ net' = [net EXCEPT !.mixtapes = n]
       /\ gets' = gets \o requests_get(<<"mixtapes">>, n)
       /\ out' = p.lines
       /\ result' = p.how
       /\ pc' = "done"
       /\ UNCHANGED <<op, endpoint>>

\* The caller is done with the outcome: nothing is kept between calls.
Discard ==
  /\ pc = "done"
  /\ op' = "none"
  /\ endpoint' = <<>>
  /\ net' = NoNet
  /\ result' = NoResult
  /\ gets' = <<>>
  /\ pc' = "idle"
  /\ out' = <<>>

Next ==
  \/ FetchNtsApi
  \/ GetCurrentBroadcasts
  \/ GetMixtapes
  \/ ClientFetchNtsApi
  \/ NewBroadcast
  \/ MainLive
  \/ MainMixtapes
  \/ Discard

Spec == Init /\ [][Next]_vars

\* ------------------------------------------------------ transport: claims

\* The operations of the nutstosoup package
NutsOps == {"fetch_nts_api", "get_current_broadcasts", "get_mixtapes"}

Fetched == op \in NutsOps /\ net.shape = "http" /\ ~RaisesForStatus(net.status)

\* C1: whenever the request times out (a Timeout or a subclass of it is
\* raised at any step of the try block), the call fails with
\* NTSAPITimeoutError, whatever the message says and whether or not the
\* exception carries a response.
C1_TimeoutYieldsTimeoutError ==
  (op \in NutsOps /\ net.shape = "raise" /\ IsTimeout(net.exc))
    => result.kind = "NTSAPITimeoutError"

C1_Witness ==
  /\ op = "fetch_nts_api"
  /\ net.shape = "raise"
  /\ net.step = "json"
  /\ net.exc.cls = "ConnectTimeout"
  /\ Contains(net.exc.msg, <<"4", "0", "4">>)
  /\ net.exc.response.present
  /\ result.kind = "NTSAPITimeoutError"

\* C2: for every non-2xx status s answered by the server, fetch_nts_api
\* fails with NTSAPIResponseError whose status_code is s, for every endpoint
\* and every message text.
C2_StatusCodeIsTheOneObserved ==
  (op = "fetch_nts_api" /\ net.shape = "http"
     /\ ~(200 <= net.status /\ net.status < 300))
    => (result.kind = "NTSAPIResponseError" /\ result.status_code = net.status)

\* C3: a transport failure that is neither a timeout nor an HTTP status (a
\* RequestException with no response attached) fails with the generic
\* NTSAPIError, not with NTSAPITimeoutError or NTSAPIResponseError.
C3_OtherFailureIsGeneric ==
  (op = "fetch_nts_api" /\ net.shape = "raise"
     /\ IsRequestException(net.exc) /\ ~IsTimeout(net.exc)
     /\ ~net.exc.response.present)
    => result.kind = "NTSAPIError"

\* --------------------------------------------------------- mappers: claims

FormatMessage ==
  IF op = "get_mixtapes" THEN <<"Invalid mixtapes data format">>
  ELSE <<"Invalid live data format">>

HasNow(channel) == "now" \in DOMAIN channel

\* The on-air channels of a live document, in source order
OnAir(doc) == SelectSeq(doc["results"], HasNow)

LiveMapped ==
  op = "get_current_broadcasts" /\ Fetched /\ "results" \in DOMAIN net.body

\* C5: for every live document with "results", get_current_broadcasts
\* returns exactly one Broadcast per channel that has "now" and none for the
\* others, in source order, so that the result is as long as the document
\* has channels with "now".
C5_OneBroadcastPerOnAirChannel ==
  LiveMapped
    => (/\ result.kind = "ok"
        /\ Len(result.value[1]) = Len(OnAir(net.body))
        /\ \A i \in 1..Len(OnAir(net.body)) :
             result.value[1][i].raw_json = OnAir(net.body)[i]["now"])

\* C6: in a document that has "results", the absence of any other key
\* (embeds, details, name, description, location, aliases, media, or a key
\* inside a genre, mood, audio-source, link or media entry) never makes
\* get_current_broadcasts fail.
C6_MissingKeyNeverFails == LiveMapped => result.kind = "ok"

NoAmpersand(text) == \A i \in 1..Len(text) : text[i] # "&"

\* C7: every Broadcast produced has channel, start_time and end_time equal
\* to the source channel_name, start_timestamp and end_timestamp, and title
\* equal to the entity-decoded source broadcast_title (the source title
\* itself when it holds no entity).
C7_BroadcastReadsBackSource ==
  (LiveMapped /\ result.kind = "ok")
    => (/\ Len(result.value[1]) = Len(OnAir(net.body))
        /\ \A i \in 1..Len(OnAir(net.body)) :
             LET b == result.value[1][i]
                 c == OnAir(net.body)[i]
                 src == c["now"]["broadcast_title"]
             IN /\ b.channel = c["channel_name"]
                /\ b.start_time = c["now"]["start_timestamp"]
                /\ b.end_time = c["now"]["end_timestamp"]
                /\ b.title = HtmlUnescape(src)
                /\ NoAmpersand(src) => b.title = src
                /\ src = <<"R ", "&", "a", "m", "p", ";", " B">>
                     => b.title = <<"R ", "&", " B">>)

C7_Witness ==
  /\ LiveMapped
  /\ result.kind = "ok"
  /\ Len(result.value[1]) = 2
  /\ result.value[1][1].title = <<"TED DRAWS">>
  /\ result.value[1][2].title = <<"R ", "&", " B">>
  /\ result.value[1][2].channel = "2"

MixtapesMapped == op = "get_mixtapes" /\ Fetched /\ "results" \in DOMAIN net.body

Entries == net.body["results"]

\* The last entry of the source with the alias a
LastWith(a) ==
  Entries[CHOOSE i \in 1..Len(Entries) :
            /\ Entries[i]["mixtape_alias"] = a
            /\ \A j \in (i + 1)..Len(Entries) : Entries[j]["mixtape_alias"] # a]

\* The records nested in an entry, where it has them, carry every key of
\* their shape that has no default
NestedComplete(e) ==
  /\ "credits" \in DOMAIN e =>
       \A i \in 1..Len(e["credits"]) : DOMAIN e["credits"][i] = {"name", "path"}
  /\ "links" \in DOMAIN e =>
       \A i \in 1..Len(e["links"]) : DOMAIN e["links"][i] = {"rel", "href", "type"}
  /\ "media" \in DOMAIN e => DOMAIN e["media"] \subseteq MixtapeMediaFields

\* An entry is well-formed when it and the records nested in it carry every
\* key of the API's mixtape shape that has no default.
WellFormedEntry(e) ==
  /\ {"mixtape_alias", "title", "subtitle", "description", "description_html",
      "audio_stream_endpoint"} \subseteq DOMAIN e
  /\ NestedComplete(e)

\* C8: for a mixtapes document of well-formed entries, get_mixtapes returns
\* a map whose keys are exactly the distinct aliases of the source; each key
\* maps to the Mixtape of that alias built from the last entry with it; the
\* map has as many entries as the source when the aliases are distinct.
C8_OneMixtapePerAliasLastWins ==
  (MixtapesMapped /\ \A i \in 1..Len(Entries) : WellFormedEntry(Entries[i]))
    => (/\ result.kind = "ok"
        /\ DOMAIN result.value[1] = {Entries[i]["mixtape_alias"] : i \in 1..Len(Entries)}
        /\ \A a \in DOMAIN result.value[1] :
             /\ result.value[1][a].mixtape_alias = a
             /\ result.value[1][a].raw_json = LastWith(a)
             /\ result.value[1][a].title = LastWith(a)["title"]
        /\ (\A i, j \in 1..Len(Entries) :
              i # j => Entries[i]["mixtape_alias"] # Entries[j]["mixtape_alias"])
             => Cardinality(DOMAIN result.value[1]) = Len(Entries))

C8_Witness ==
  /\ MixtapesMapped
  /\ Len(Entries) = 2
  /\ WellFormedEntry(Entries[1])
  /\ WellFormedEntry(Entries[2])
  /\ Entries[1]["mixtape_alias"] = "poolside"
  /\ Entries[2]["mixtape_alias"] = "poolside"
  /\ Entries[1]["title"] # Entries[2]["title"]
  /\ result.kind = "ok"
  /\ DOMAIN result.value[1] = {"poolside"}
  /\ result.value[1]["poolside"].title = Entries[2]["title"]

\* C9: an entry that carries alias, title, subtitle, description and stream
\* endpoint yields a Mixtape without failing, whichever other keys of the
\* entry are left out.
C9_FiveKeysSuffice ==
  (MixtapesMapped
     /\ \A i \in 1..Len(Entries) :
          /\ {"mixtape_alias", "title", "subtitle", "description",
              "audio_stream_endpoint"} \subseteq DOMAIN Entries[i]
          /\ NestedComplete(Entries[i]))
    => result.kind = "ok"

\* C10: the Mixtape stored under an alias reads back title, subtitle and
\* description equal to the source values, stream_url equal to the source
\* audio_stream_endpoint, and credits as a list whose i-th element gives the
\* name and path of the i-th source credit under the keys "name" and "path".
C10_MixtapeReadsBackSource ==
  (MixtapesMapped /\ result.kind = "ok")
    => \A a \in DOMAIN result.value[1] :
         LET m == result.value[1][a]
             src == LastWith(a)
             credits == Get(src, "credits", <<>>)
         IN /\ GetAttr(m, "title") = Return(src["title"])
            /\ GetAttr(m, "subtitle") = Return(src["subtitle"])
            /\ GetAttr(m, "description") = Return(src["description"])
            /\ GetAttr(m, "stream_url") = Return(src["audio_stream_endpoint"])
            /\ GetAttr(m, "credits").kind = "ok"
            /\ Len(m.credits) = Len(credits)
            /\ \A i \in 1..Len(credits) :
                 /\ GetItem(m.credits[i], "name") = Return(credits[i]["name"])
                 /\ GetItem(m.credits[i], "path") = Return(credits[i]["path"])

\* ------------------------------------------------------ error kinds: claims

\* The kinds of failure the operations document: timeout, response error
\* with its status code, and NTSAPIError (format error and generic error)
ContractKinds == {"NTSAPITimeoutError", "NTSAPIResponseError", "NTSAPIError"}

\* C11: every failure of fetch_nts_api, get_current_broadcasts or
\* get_mixtapes reaches the caller as a timeout, a response error with a
\* status code, a format error or a generic error; no key lookup, type or
\* attribute error escapes.
C11_OnlyContractKinds ==
  (op \in NutsOps /\ result.kind # "ok") => result.kind \in ContractKinds

\* ------------------------------------------------------- requests: claims

C15_MinimalBroadcast ==
  (op = "Broadcast" /\ DOMAIN net.kwargs = MinimalFields) =>
    /\ result.kind = "ok"
    /\ \A f \in MinimalFields : GetAttr(result.value[1], f) = Return(net.kwargs[f])
    /\ \A f \in BroadcastOptional : GetAttr(result.value[1], f) = Return(NoneV)

\* ------------------------------------------------ nts_api_client: claims

\* C14: nts_api_client.fetch_nts_api never raises and returns a pair
\* (data, error) with exactly one None: the JSON body and no error when a
\* response was read, no data and the error message when the request
\* failed.
C14_ExactlyOneNone ==
  op = "nts_api_client.fetch_nts_api" =>
    /\ result.kind = "ok"
    /\ IsNone(result.value[1].data) # (result.value[1].error = NoneV)
    /\ net.shape = "raise" <=> result.value[1].error = NetworkError

\* ------------------------------------------------------------ main: claims

MainDone == op = "main" /\ pc = "done"

LiveFailed == get_current_broadcasts(net.live).kind # "ok"

\* The failure of the library call that ended a run of main, if one did
MainFailure ==
  IF LiveFailed THEN get_current_broadcasts(net.live) ELSE get_mixtapes(net.mixtapes)

\* The one-line message for a failure's kind
IsErrorLineFor(line, e) ==
  IF e.kind = "NTSAPITimeoutError" THEN line = <<"Error: Request timed out">>
  ELSE IF e.kind = "NTSAPIResponseError"
    THEN StartsWith(line, <<"Error: API returned ">> \o Str(e.status_code))
  ELSE StartsWith(line, <<"Error: ">>)

\* C13: every run of main returns normally, whatever get_current_broadcasts,
\* get_mixtapes or the printing of their results does, and a failure of
\* either call leaves the one-line message of its kind as the last line
\* printed; no exception leaves main.
C13_MainAlwaysReturns ==
  MainDone =>
    /\ result.kind = "ok"
    /\ MainFailure.kind # "ok" =>
         out # <<>> /\ IsErrorLineFor(out[Len(out)], MainFailure)

\* What main has printed when the loop over the broadcasts is over
LiveOutput ==
  << <<"Live Channels">>, <<"-------------">> >>
    \o PrintBroadcasts(get_current_broadcasts(net.live).value[1])

\* The GETs of a run of main: "live" first, then at most "mixtapes", and
\* "mixtapes" only after the live block succeeded and was printed.
MainGetsInOrder ==
  op = "main" =>
    /\ gets \in {<<Url(<<"live">>)>>, <<Url(<<"live">>), Url(<<"mixtapes">>)>>}
    /\ Len(gets) = 2 => ~LiveFailed /\ StartsWith(out, LiveOutput)
    /\ (pc = "done" /\ LiveFailed) => Len(gets) = 1

\* C16: a run of main issues the "live" GET, then at most the "mixtapes"
\* GET, the latter only after the live step succeeded and its broadcasts
\* were printed; a failed live step ends the run with no "mixtapes" GET, and
\* a failed mixtapes step leaves the live output followed by the error line.
C16_LiveThenMixtapes ==
  /\ MainGetsInOrder
  /\ (MainDone /\ Len(gets) = 2 /\ get_mixtapes(net.mixtapes).kind # "ok") =>
       /\ Len(out) = Len(LiveOutput) + 1
       /\ StartsWith(out, LiveOutput)
       /\ IsErrorLineFor(out[Len(out)], get_mixtapes(net.mixtapes))
====
